---------------------------- MODULE Spec2Model ----------------------------
(***************************************************************************)
(* A model of mankalla-rl: the Mancala engine (src/src/mankalla.rs), the   *)
(* tabular greedy / epsilon-greedy policies and the trainer                *)
(* (src/src/q_learning.rs) and the interactive turns (src/src/main.rs).    *)
(*                                                                         *)
(* Board counters are u8 in the source; they are modelled as naturals.     *)
(* Table values are f32 in the source; they are modelled as exact          *)
(* fixed-point numbers in units of 1/Scale (ExactUpdate states that no     *)
(* update ever needs a finer unit).                                        *)
(*                                                                         *)
(* Spec        QLearning::train on the policy main builds                   *)
(* SpecPlay    the turns of main.rs game_loop                               *)
(* SpecPolicy  choose_action of the two policies over arbitrary tables      *)
(* SpecPersist train, then the policy written to policy.csv and read back   *)
(* SpecInput   get_player_input over the lines of standard input            *)
(* SpecGame    the plays of one game, followed to their end                 *)
(***************************************************************************)
EXTENDS Integers, Sequences, FiniteSets, TLC

VARIABLES
    state,      \* the MankallaGameState held by the episode / game loop
    finished,   \* the last step returned None: the episode / game is over
    qtable,     \* GreedyPolicy.qtable: (ActionRelevantState, Action) -> value
    episode,    \* EpsilonGreedyPolicy.episode
    moves,      \* number of step calls explored so far (bounded by MaxMoves)
    last,       \* what the last step / improve call saw and computed
    params,     \* learning_rate, gamma, max_epsilon, min_epsilon, decay_rate
    train,      \* QLearning::train: its arguments and the position of its loops
    chosen,     \* what the last choose_action call was given and returned
    improved,   \* the (state, action) pairs passed to improve so far
    io,         \* get_player_input: standard input, the line buffer, the result
    file        \* policy.csv: what was written and what reading it back gave

vars == <<state, finished, qtable, episode, moves, last,
          params, train, chosen, improved, io, file>>

---------------------------------------------------------------------------
(* Bounds of the model                                                     *)

\* step calls explored after the initial position
MaxMoves == 5
\* table values are kept in units of 1 / LrDen^ScaleExp
ScaleExp == 4
\* the largest num_training_episodes a call of train is given
MaxEpisodes == 2
\* the largest step cap a call of train is given
MaxCap == 2
\* the most lines standard input holds when get_player_input is entered
MaxLines == 3

---------------------------------------------------------------------------
(* Program constants                                                       *)

NumFields == 14
NumActions == 6
InitialMarbles == 6
P1Store == 6
P2Store == 13
P2Offset == 7
OppositeSum == 12
\* the width of a counter (fields is an array of u8)
CounterBits == 8
\* learning rate 0.2 = LrNum / LrDen, gamma 1.0
LrNum == 1
LrDen == 5
Gamma == 1
\* choose_action's fatal path (expect on an empty action list)
Panic == -1

RECURSIVE Pow(_, _)
Pow(b, e) == IF e = 0 THEN 1 ELSE b * Pow(b, e - 1)

Scale == Pow(LrDen, ScaleExp)

RECURSIVE SumRange(_, _, _)
\* fields[lo..hi) summed, as the iterator sums of the source
SumRange(f, lo, hi) == IF lo >= hi THEN 0 ELSE f[lo] + SumRange(f, lo + 1, hi)

---------------------------------------------------------------------------
(* mankalla.rs                                                             *)

\* MankallaGameState::default
NewState ==
    [fields |-> [k \in 0..(NumFields - 1) |->
                    IF k = P1Store \/ k = P2Store THEN 0 ELSE InitialMarbles],
     player_to_move |-> "Player1"]

\* &fields[lo..lo + 6]
Slice(f, lo) == <<f[lo], f[lo + 1], f[lo + 2], f[lo + 3], f[lo + 4], f[lo + 5]>>

\* Projection with the turn ignored: player one's pits always come first
ProjectionFixed(s) == Slice(s.fields, 0) \o Slice(s.fields, P2Offset)

\* From<MankallaGameState> for [u8; 12].  The key is a sequence: slot k of the
\* source's array is key[k + 1].
Projection(s) ==
    IF s.player_to_move = "Player1"
    THEN Slice(s.fields, 0) \o Slice(s.fields, P2Offset)
    ELSE Slice(s.fields, P2Offset) \o Slice(s.fields, 0)

\* actions() without the filter on empty pits
ActionsUnfiltered(key) == <<0, 1, 2, 3, 4, 5>>

\* MankallaGame::actions: the indices of the non-empty pits among key[..6],
\* in ascending order
Actions(key) ==
    SelectSeq(<<0, 1, 2, 3, 4, 5>>, LAMBDA a : key[a + 1] > 0)

\* MankallaGameState::get_points
GetPoints(f, player) ==
    IF player = "Player1" THEN f[P1Store] ELSE f[P2Store]

\* step's match on player_to_move: the physical pit of action a
SourcePit(player, action) ==
    IF player = "Player1" THEN action ELSE action + P2Offset

RECURSIVE SowBackwards(_, _, _)
\* a sowing that goes round the board the other way
SowBackwards(f, i, marbles_to_move) ==
    IF marbles_to_move > 0
    THEN LET j == (i + NumFields - 1) % NumFields
         IN SowBackwards([f EXCEPT ![j] = f[j] + 1], j, marbles_to_move - 1)
    ELSE [fields |-> f, i |-> i]

RECURSIVE Sow(_, _, _)
\* step's while loop: sow marbles_to_move marbles, one per pit, after pit i
Sow(f, i, marbles_to_move) ==
    IF marbles_to_move > 0
    THEN LET j == (i + 1) % NumFields
         IN Sow([f EXCEPT ![j] = f[j] + 1], j, marbles_to_move - 1)
    ELSE [fields |-> f, i |-> i]

\* the first if of handle_steal, the capturing marble itself left out of the sum
StealP1LosesOwn(f, player, i) ==
    IF f[i] = 1 /\ player = "Player1" /\ i < 6 /\ f[OppositeSum - i] > 0
    THEN [f EXCEPT ![P1Store] = f[P1Store] + f[OppositeSum - i],
                   ![i] = 0,
                   ![OppositeSum - i] = 0]
    ELSE f

\* the first if of handle_steal
StealP1(f, player, i) ==
    IF f[i] = 1 /\ player = "Player1" /\ i < 6 /\ f[OppositeSum - i] > 0
    THEN [f EXCEPT ![P1Store] = f[P1Store] + f[i] + f[OppositeSum - i],
                   ![i] = 0,
                   ![OppositeSum - i] = 0]
    ELSE f

\* the second if of handle_steal without the test of the opposite pit
StealP2AnyOpposite(f, player, i) ==
    IF f[i] = 1 /\ player = "Player2" /\ 6 < i /\ i < 13
    THEN [f EXCEPT ![P2Store] = f[P2Store] + f[i] + f[OppositeSum - i],
                   ![i] = 0,
                   ![OppositeSum - i] = 0]
    ELSE f

\* the second if of handle_steal crediting player one's scoring pit
StealP2WrongStore(f, player, i) ==
    IF f[i] = 1 /\ player = "Player2" /\ 6 < i /\ i < 13 /\ f[OppositeSum - i] > 0
    THEN [f EXCEPT ![P1Store] = f[P1Store] + f[i] + f[OppositeSum - i],
                   ![i] = 0,
                   ![OppositeSum - i] = 0]
    ELSE f

\* the second if of handle_steal
StealP2(f, player, i) ==
    IF f[i] = 1 /\ player = "Player2" /\ 6 < i /\ i < 13 /\ f[OppositeSum - i] > 0
    THEN [f EXCEPT ![P2Store] = f[P2Store] + f[i] + f[OppositeSum - i],
                   ![i] = 0,
                   ![OppositeSum - i] = 0]
    ELSE f

\* MankallaGameState::handle_steal
HandleSteal(f, player, i) == StealP2(StealP1(f, player, i), player, i)

\* handle_if_game_finished ending the game only when both sides are empty
HandleIfGameFinishedBothEmpty(f) ==
    LET p1_sum == SumRange(f, 0, 6)
        p2_sum == SumRange(f, 7, 13)
    IN  IF p1_sum # 0 \/ p2_sum # 0
        THEN [fields |-> f, finished |-> FALSE]
        ELSE [fields |-> [[k \in 0..(NumFields - 1) |-> 0]
                            EXCEPT ![P1Store] = p1_sum + f[P1Store],
                                   ![P2Store] = p2_sum + f[P2Store]],
              finished |-> TRUE]

\* handle_if_game_finished leaving in each scoring pit only its side's rest
HandleIfGameFinishedDropsStores(f) ==
    LET p1_sum == SumRange(f, 0, 6)
        p2_sum == SumRange(f, 7, 13)
    IN  IF p1_sum # 0 /\ p2_sum # 0
        THEN [fields |-> f, finished |-> FALSE]
        ELSE [fields |-> [[k \in 0..(NumFields - 1) |-> 0]
                            EXCEPT ![P1Store] = p1_sum,
                                   ![P2Store] = p2_sum],
              finished |-> TRUE]

\* MankallaGameState::handle_if_game_finished
HandleIfGameFinished(f) ==
    LET p1_sum == SumRange(f, 0, 6)
        p2_sum == SumRange(f, 7, 13)
    IN  IF p1_sum # 0 /\ p2_sum # 0
        THEN [fields |-> f, finished |-> FALSE]
        ELSE [fields |-> [[k \in 0..(NumFields - 1) |-> 0]
                            EXCEPT ![P1Store] = p1_sum + f[P1Store],
                                   ![P2Store] = p2_sum + f[P2Store]],
              finished |-> TRUE]

\* handle_switch_player testing player one's scoring pit for both players
HandleSwitchPlayerP1StoreOnly(player, i) ==
    IF i # P1Store
    THEN (IF player = "Player1" THEN "Player2" ELSE "Player1")
    ELSE player

\* MankallaGameState::handle_switch_player
HandleSwitchPlayer(player, i) ==
    IF (player = "Player1" /\ i # P1Store) \/ (player = "Player2" /\ i # P2Store)
    THEN (IF player = "Player1" THEN "Player2" ELSE "Player1")
    ELSE player

\* the reward always from player one's side
RewardPlayerOne(before, after, player) ==
    (GetPoints(after, "Player1") - GetPoints(before, "Player1"))
    - (GetPoints(after, "Player2") - GetPoints(before, "Player2"))

\* the reward of step: score changes of this transition, from the mover's side
Reward(before, after, player) ==
    LET diff == (GetPoints(after, "Player1") - GetPoints(before, "Player1"))
                - (GetPoints(after, "Player2") - GetPoints(before, "Player2"))
    IN  IF player = "Player2" THEN -diff ELSE diff

\* MankallaGame::step.  some = FALSE stands for the None successor; state is
\* then step's local board at the return, which the caller never sees.
\* returned = FALSE stands for the failed assert!(*action < 6), the only place
\* where step stops instead of returning.
Step(s, action) ==
    LET mover == s.player_to_move
        src == SourcePit(mover, action)
        marbles_to_move == s.fields[src]
        sow == Sow([s.fields EXCEPT ![src] = 0], src, marbles_to_move)
        stolen == HandleSteal(sow.fields, mover, sow.i)
        fin == HandleIfGameFinished(stolen)
    IN  [returned |-> action < NumActions,
         some |-> ~fin.finished,
         state |-> [fields |-> fin.fields,
                    player_to_move |-> IF fin.finished THEN mover
                                       ELSE HandleSwitchPlayer(mover, sow.i)],
         reward |-> Reward(s.fields, fin.fields, mover),
         src |-> src,
         marbles |-> marbles_to_move,
         i |-> sow.i,
         sown |-> sow.fields,
         stolen |-> stolen]

---------------------------------------------------------------------------
(* q_learning.rs: GreedyPolicy and EpsilonGreedyPolicy                     *)

\* GreedyPolicy::new: an empty table
EmptyTable == <<>>

\* qtable.get(&(state, action)).unwrap_or(&0f32)
Get(q, key, a) == IF <<key, a>> \in DOMAIN q THEN q[<<key, a>>] ELSE 0

\* qtable.insert((state, action), value)
Insert(q, key, a, value) ==
    (<<key, a>> :> value) @@ q

RECURSIVE MaxByFirst(_, _, _, _)
\* a maximum that keeps the first of several maxima
MaxByFirst(q, key, rest, best) ==
    IF rest = <<>> THEN best
    ELSE MaxByFirst(q, key, Tail(rest),
                    IF Get(q, key, best) >= Get(q, key, Head(rest)) THEN best ELSE Head(rest))

RECURSIVE MaxBy(_, _, _, _)
\* Iterator::max_by over the rest of the actions: the running maximum is kept
\* only when it compares Greater, so the last of several maxima is returned
MaxBy(q, key, rest, best) ==
    IF rest = <<>> THEN best
    ELSE MaxBy(q, key, Tail(rest),
               IF Get(q, key, best) > Get(q, key, Head(rest)) THEN best ELSE Head(rest))

\* choose_action taking the maximum over all six pits, offered or not
ChooseActionAllPits(q, key) ==
    MaxBy(q, key, <<1, 2, 3, 4, 5>>, 0)

\* GreedyPolicy::choose_action
ChooseAction(q, key) ==
    LET actions == Actions(key)
    IN  IF actions = <<>> THEN Panic
        ELSE MaxBy(q, key, Tail(actions), Head(actions))

\* EpsilonGreedyPolicy::choose_action: every action either branch can return
EpsilonChoices(q, key) ==
    LET actions == Actions(key)
    IN  IF actions = <<>> THEN {Panic}
        ELSE {actions[n] : n \in 1..Len(actions)} \cup {ChooseAction(q, key)}

\* the target of GreedyPolicy::improve, in units of 1 / Scale
Target(q, reward, some, next) ==
    IF some
    THEN reward * Scale
         + Gamma * Get(q, Projection(next), ChooseAction(q, Projection(next)))
    ELSE 0

\* the value GreedyPolicy::improve stores, in units of 1 / Scale
Updated(former, target) == former + (LrNum * (target - former)) \div LrDen

\* an improve whose look-up of the successor's best value stores the default
\* it reads
ImproveStoresDefault(q, key, a, reward, some, next) ==
    Insert(IF some
           THEN Insert(q, Projection(next), ChooseAction(q, Projection(next)),
                       Get(q, Projection(next), ChooseAction(q, Projection(next))))
           ELSE q,
           key, a, Updated(Get(q, key, a), Target(q, reward, some, next)))

\* GreedyPolicy::improve (EpsilonGreedyPolicy::improve delegates to it)
Improve(q, key, a, reward, some, next) ==
    Insert(q, key, a, Updated(Get(q, key, a), Target(q, reward, some, next)))

---------------------------------------------------------------------------
(* q_learning.rs: the trainer; main.rs: the interactive turns              *)

\* the record of a position in which no step has been made yet
NoLast ==
    [called |-> FALSE, pre |-> NewState, key |-> Projection(NewState),
     action |-> 0, step |-> Step(NewState, 0), former |-> 0, target |-> 0,
     table |-> EmptyTable,
     improve |-> [state |-> Projection(NewState), action |-> 0, reward |-> 0,
                  some |-> FALSE, next |-> NewState],
     calls |-> <<>>]

\* a turn whose improve call is given the projection of the state after the
\* step in place of the state before it
TurnImprovesSuccessor(c, a) ==
    LET r == Step(c.state, a)
        key == Projection(r.state)
        args == [state |-> key, action |-> a, reward |-> r.reward,
                 some |-> r.some, next |-> r.state]
    IN  [state |-> IF r.some THEN r.state ELSE c.state,
         finished |-> ~r.some,
         qtable |-> Improve(c.qtable, args.state, args.action, args.reward,
                            args.some, args.next),
         improved |-> c.improved \cup {<<args.state, args.action>>},
         last |-> [called |-> TRUE, pre |-> c.state, key |-> key, action |-> a,
                   step |-> r,
                   former |-> Get(c.qtable, key, a),
                   target |-> Target(c.qtable, r.reward, r.some, r.state),
                   table |-> c.qtable,
                   improve |-> args,
                   calls |-> <<"step", "improve">>]]

\* QLearning::choose_and_improve once the action is chosen (player_turn and
\* bot_turn of main.rs make the same two calls): step on the state held, then
\* improve with the projection of that state, the action, and what step
\* returned
Turn(c, a) ==
    LET key == Projection(c.state)
        r == Step(c.state, a)
        args == [state |-> key, action |-> a, reward |-> r.reward,
                 some |-> r.some, next |-> r.state]
    IN  [state |-> IF r.some THEN r.state ELSE c.state,
         finished |-> ~r.some,
         qtable |-> Improve(c.qtable, args.state, args.action, args.reward,
                            args.some, args.next),
         improved |-> c.improved \cup {<<args.state, args.action>>},
         last |-> [called |-> TRUE, pre |-> c.state, key |-> key, action |-> a,
                   step |-> r,
                   former |-> Get(c.qtable, key, a),
                   target |-> Target(c.qtable, r.reward, r.some, r.state),
                   table |-> c.qtable,
                   improve |-> args,
                   calls |-> <<"step", "improve">>]]

\* GreedyPolicy::new
GreedyPolicyNew(learning_rate, gamma) ==
    [qtable |-> EmptyTable, gamma |-> gamma, learning_rate |-> learning_rate]

\* EpsilonGreedyPolicy::new
EpsilonGreedyPolicyNew(learning_rate, gamma, max_epsilon, min_epsilon, decay_rate) ==
    [greedy_policy |-> GreedyPolicyNew(learning_rate, gamma),
     min_epsilon |-> min_epsilon,
     max_epsilon |-> max_epsilon,
     decay_rate |-> decay_rate,
     episode |-> 0]

\* main.rs main: the policy built when policy.csv cannot be read; a parameter
\* is the pair <<numerator, denominator>>
MainPolicy ==
    EpsilonGreedyPolicyNew(<<LrNum, LrDen>>, <<Gamma, 1>>, <<1, 1>>, <<1, 10>>,
                           <<-1, 100>>)

\* the parameters of a policy
ParamsOf(p) ==
    [learning_rate |-> p.greedy_policy.learning_rate,
     gamma |-> p.greedy_policy.gamma,
     max_epsilon |-> p.max_epsilon,
     min_epsilon |-> p.min_epsilon,
     decay_rate |-> p.decay_rate]

\* Environment::new with the policy of main
Start ==
    [state |-> NewState, finished |-> FALSE,
     qtable |-> MainPolicy.greedy_policy.qtable, improved |-> {}, last |-> NoLast]

RECURSIVE Run(_, _)
\* the position an episode is in after the moves of line, from c (the bound n
\* makes TLC compute each position before it goes on to the next move)
Run(c, line) ==
    IF line = <<>> THEN c
    ELSE CHOOSE r \in {Run(n, Tail(line)) : n \in {Turn(c, Head(line))}} : TRUE

RECURSIVE Legal(_, _)
\* every move of line is offered by actions() and none ends the game
Legal(c, line) ==
    IF line = <<>> THEN TRUE
    ELSE /\ \E k \in 1..Len(Actions(Projection(c.state))) :
                Actions(Projection(c.state))[k] = Head(line)
         /\ \A n \in {Turn(c, Head(line))} :
                ~n.finished /\ Legal(n, Tail(line))

\* The positions exploration starts from: the start of an episode, and a
\* position late in an episode, reached from new() by the moves listed (each
\* offered by actions() where it is made; the table is the one the trainer has
\* built by then from an empty one).
Openings ==
    { <<>>,
      <<0, 3, 2, 1, 2, 3, 5, 3, 1, 4, 1, 5, 3, 0, 4, 1, 5, 1, 2, 3, 4, 4, 3, 1, 4>> }

\* no choose_action call has been made
NoChoice ==
    [called |-> FALSE, by |-> "", branch |-> "", key |-> Projection(NewState),
     action |-> 0]

\* get_player_input has returned nothing yet
NoRequest == [kind |-> "None", action |-> 0]

\* get_player_input has not been entered: nothing on standard input, nothing
\* read, an empty line buffer
NoIo == [lines |-> <<>>, reads |-> 0, input |-> <<>>, request |-> NoRequest]

\* nothing was written to policy.csv
NoFile == [written |-> FALSE]

\* max_steps: Option<usize>
NoMaxSteps == [some |-> FALSE, m |-> 0]

MaxStepsChoices == {NoMaxSteps} \cup {[some |-> TRUE, m |-> m] : m \in 0..MaxCap}

\* the game and the policy at the position reached by line, the policy being
\* the one main builds; standard input is left to the caller
InitAt(line) ==
    /\ Legal(Start, line)
    /\ \E c \in {Run(Start, line)} :
          /\ state = c.state
          /\ finished = FALSE
          /\ qtable = c.qtable
          /\ improved = c.improved
    /\ last = NoLast
    /\ params = ParamsOf(MainPolicy)
    /\ moves = 0
    /\ chosen = NoChoice
    /\ file = NoFile

\* QLearning::train is entered with num_training_episodes = n and a step cap;
\* a position late in an episode is inside the first episode of a call
\* without a cap
InitTrain(line) ==
    \E n \in 0..MaxEpisodes, max_steps \in MaxStepsChoices :
        IF line = <<>>
        THEN train = [n |-> n, max_steps |-> max_steps, done |-> 0, steps |-> 0,
                      pc |-> "loop"]
        ELSE /\ n > 0
             /\ max_steps = NoMaxSteps
             /\ train = [n |-> n, max_steps |-> max_steps, done |-> 0,
                         steps |-> Len(line), pc |-> "episode"]

Init ==
    \E line \in Openings :
        /\ InitAt(line)
        /\ io = NoIo
        /\ InitTrain(line)
        /\ episode = MainPolicy.episode

Cfg ==
    [state |-> state, finished |-> finished, qtable |-> qtable,
     improved |-> improved, last |-> last]

\* the effect of one turn with action a on the game and on the table
Apply(a) ==
    /\ state' = Turn(Cfg, a).state
    /\ finished' = Turn(Cfg, a).finished
    /\ qtable' = Turn(Cfg, a).qtable
    /\ improved' = Turn(Cfg, a).improved
    /\ last' = Turn(Cfg, a).last
    /\ moves' = moves + 1
    /\ UNCHANGED <<episode, params, io, file>>

\* the effect of one turn whose action a the policy chose
ApplyChoice(a) ==
    /\ state' = Turn(Cfg, a).state
    /\ finished' = Turn(Cfg, a).finished
    /\ qtable' = Turn(Cfg, a).qtable
    /\ improved' = Turn(Cfg, a).improved
    /\ last' = [Turn(Cfg, a).last EXCEPT !.calls = <<"choose_action">> \o @]
    /\ chosen' = [called |-> TRUE, by |-> "EpsilonGreedyPolicy",
                  branch |-> "either", key |-> Projection(state), action |-> a]
    /\ moves' = moves + 1
    /\ UNCHANGED <<episode, params, io, file>>

\* the step cap of one_episode leaves room for another step
BelowCap == train.max_steps.some => train.steps < train.max_steps.m

\* a loop of one_episode that does not break when step returns None
ChooseAndImproveNoBreak ==
    /\ train.pc = "episode"
    /\ BelowCap
    /\ moves < MaxMoves
    /\ \E a \in EpsilonChoices(qtable, Projection(state)) :
           a # Panic /\ ApplyChoice(a)
    /\ train' = [train EXCEPT !.steps = @ + 1]

\* QLearning::choose_and_improve, inside the loop of one_episode
ChooseAndImprove ==
    /\ train.pc = "episode"
    /\ ~finished
    /\ BelowCap
    /\ moves < MaxMoves
    /\ \E a \in EpsilonChoices(qtable, Projection(state)) :
           a # Panic /\ ApplyChoice(a)
    /\ train' = [train EXCEPT !.steps = @ + 1]

\* Policy::on_episode_increment as GreedyPolicy inherits it
OnEpisodeIncrementDefault(e) == e

\* EpsilonGreedyPolicy::on_episode_increment
OnEpisodeIncrement(e) == e + 1

\* QLearning::train: one_episode has returned (its loop broke on None or ran
\* out of steps); on_episode_increment
EndEpisode ==
    /\ train.pc = "episode"
    /\ finished \/ ~BelowCap
    /\ episode' = OnEpisodeIncrement(episode)
    /\ train' = [train EXCEPT !.done = @ + 1, !.pc = "loop"]
    /\ UNCHANGED <<state, finished, qtable, moves, last, params, chosen,
                   improved, io, file>>

\* QLearning::train: the next iteration enters one_episode, which starts from
\* Environment::new()
NextEpisode ==
    /\ train.pc = "loop"
    /\ train.done < train.n
    /\ state' = NewState
    /\ finished' = FALSE
    /\ last' = NoLast
    /\ train' = [train EXCEPT !.steps = 0, !.pc = "episode"]
    /\ UNCHANGED <<qtable, episode, moves, params, chosen, improved, io, file>>

\* QLearning::train: the loop over the episodes is exhausted
TrainReturn ==
    /\ train.pc = "loop"
    /\ train.done >= train.n
    /\ train' = [train EXCEPT !.pc = "returned"]
    /\ UNCHANGED <<state, finished, qtable, episode, moves, last, params,
                   chosen, improved, io, file>>

Next == ChooseAndImprove \/ EndEpisode \/ NextEpisode \/ TrainReturn

Spec == Init /\ [][Next]_vars

\* the trainer is not running
NoTrain ==
    [n |-> 0, max_steps |-> NoMaxSteps, done |-> 0, steps |-> 0, pc |-> "idle"]

\* main.rs game_loop is entered
InitPlay ==
    \E line \in Openings :
        /\ InitAt(line)
        /\ io = NoIo
        /\ train = NoTrain
        /\ episode = MainPolicy.episode

\* main.rs player_turn: the digit the human typed goes to step as it is
PlayerTurn ==
    /\ ~finished
    /\ moves < MaxMoves
    /\ state.player_to_move = "Player1"
    /\ \E a \in 0..(NumActions - 1) : Apply(a)
    /\ UNCHANGED <<train, chosen>>

\* main.rs bot_turn: the policy chooses for player two
BotTurn ==
    /\ ~finished
    /\ moves < MaxMoves
    /\ state.player_to_move = "Player2"
    /\ \E a \in EpsilonChoices(qtable, Projection(state)) :
           a # Panic /\ ApplyChoice(a)
    /\ UNCHANGED train

NextPlay == PlayerTurn \/ BotTurn

SpecPlay == InitPlay /\ [][NextPlay]_vars

---------------------------------------------------------------------------
(* q_learning.rs: choose_action of the two policies, asked on its own      *)

\* the values a table read from policy.csv holds for the six actions of one
\* state, in units of 1 / Scale; index 0 stands for no entry
StoredValues == <<0 - Scale, 0, Scale>>

\* the table that holds StoredValues[f[a]] for (key, a) wherever f[a] > 0
TableOf(key, f) ==
    [p \in {<<key, a>> : a \in {b \in 0..(NumActions - 1) : f[b] > 0}} |->
        StoredValues[f[p[2]]]]

\* a policy and a state to choose for: the state is one of the positions of
\* Openings, the table any table over its six actions
InitPolicy ==
    /\ \E line \in Openings, f \in [0..(NumActions - 1) -> 0..Len(StoredValues)] :
          \E c \in {Run(Start, line)} :
              /\ state = c.state
              /\ qtable = TableOf(Projection(c.state), f)
    /\ finished = FALSE
    /\ last = NoLast
    /\ improved = {}
    /\ params = ParamsOf(MainPolicy)
    /\ episode = MainPolicy.episode
    /\ moves = 0
    /\ train = NoTrain
    /\ chosen = NoChoice
    /\ io = NoIo
    /\ file = NoFile

\* GreedyPolicy::choose_action(state.into())
GreedyChoose ==
    /\ ~chosen.called
    /\ chosen' = [called |-> TRUE, by |-> "GreedyPolicy", branch |-> "greedy",
                  key |-> Projection(state),
                  action |-> ChooseAction(qtable, Projection(state))]
    /\ UNCHANGED <<state, finished, qtable, episode, moves, last, params,
                   train, improved, io, file>>

\* EpsilonGreedyPolicy::choose_action(state.into()): the random draw falls
\* below epsilon() and one of actions() is picked, or it does not and the
\* greedy policy is asked
EpsilonChoose ==
    /\ ~chosen.called
    /\ Actions(Projection(state)) # <<>>
    /\ \/ \E n \in 1..Len(Actions(Projection(state))) :
              chosen' = [called |-> TRUE, by |-> "EpsilonGreedyPolicy",
                         branch |-> "explore", key |-> Projection(state),
                         action |-> Actions(Projection(state))[n]]
       \/ chosen' = [called |-> TRUE, by |-> "EpsilonGreedyPolicy",
                     branch |-> "greedy", key |-> Projection(state),
                     action |-> ChooseAction(qtable, Projection(state))]
    /\ UNCHANGED <<state, finished, qtable, episode, moves, last, params,
                   train, improved, io, file>>

NextPolicy == GreedyChoose \/ EpsilonChoose

SpecPolicy == InitPolicy /\ [][NextPolicy]_vars

---------------------------------------------------------------------------
(* q_learning.rs, mankalla.rs: Serialize and Deserialize; main.rs: the file *)

\* The text of policy.csv is modelled as the sequence of its lines, a line as
\* the sequence of its fields (split at ';'), a state field as the sequence
\* of its numerals (split at ' ').  A numeral is a sign, the decimal digits
\* before the point and the decimal digits after it.  An f32 is the fraction
\* <<numerator, denominator>> in lowest terms; a table value v stands for
\* v / Scale.

\* significant bits of an f32
F32MantissaBits == 24

RECURSIVE Digits(_)
\* the decimal digits of a natural number, as to_string and {} write them
Digits(n) == IF n < 10 THEN <<n>> ELSE Append(Digits(n \div 10), n % 10)

RECURSIVE Padded(_, _)
\* the last w decimal digits of n
Padded(n, w) == IF w = 0 THEN <<>> ELSE Append(Padded(n \div 10, w - 1), n % 10)

RECURSIVE StripZeros(_)
StripZeros(ds) ==
    IF ds # <<>> /\ ds[Len(ds)] = 0
    THEN StripZeros(SubSeq(ds, 1, Len(ds) - 1))
    ELSE ds

RECURSIVE Number(_)
\* the natural number a sequence of decimal digits denotes
Number(ds) ==
    IF ds = <<>> THEN 0
    ELSE 10 * Number(SubSeq(ds, 1, Len(ds) - 1)) + ds[Len(ds)]

Abs(x) == IF x < 0 THEN 0 - x ELSE x

RECURSIVE Gcd(_, _)
Gcd(a, b) == IF b = 0 THEN a ELSE Gcd(b, a % b)

\* a fraction in lowest terms
Reduce(r) ==
    LET g == Gcd(Abs(r[1]), r[2])
    IN  <<(IF r[1] < 0 THEN 0 - (Abs(r[1]) \div g) ELSE r[1] \div g), r[2] \div g>>

\* format!("{}", n) for a usize or u8
DisplayInteger(n) == [neg |-> FALSE, int |-> Digits(n), frac |-> <<>>]

\* format!("{}", x) for the f32 r[1] / r[2]: the decimal expansion, without
\* trailing zeros (every denominator of the model divides 10^ScaleExp)
DisplayF32(r) ==
    LET scaled == Abs(r[1]) * (Pow(10, ScaleExp) \div r[2])
    IN  [neg |-> r[1] < 0,
         int |-> Digits(scaled \div Pow(10, ScaleExp)),
         frac |-> StripZeros(Padded(scaled % Pow(10, ScaleExp), ScaleExp))]

RECURSIVE Spacing(_)
\* the distance between neighbouring f32 values at the magnitude of n
Spacing(n) == IF n < Pow(2, F32MantissaBits) THEN 1 ELSE 2 * Spacing(n \div 2)

\* the f32 nearest to the natural number n, ties going to the even mantissa
F32OfNat(n) ==
    LET sp == Spacing(n)
        lo == (n \div sp) * sp
        r == n - lo
    IN  IF 2 * r < sp THEN lo
        ELSE IF 2 * r > sp THEN lo + sp
        ELSE IF (lo \div sp) % 2 = 0 THEN lo ELSE lo + sp

\* str::parse::<f32>: the nearest f32 to the numeral (a numeral with digits
\* after the point is one Display wrote for an f32, and is read back as it)
ParseF32(t) ==
    LET sign == IF t.neg THEN 0 - 1 ELSE 1
    IN  IF t.frac = <<>>
        THEN <<sign * F32OfNat(Number(t.int)), 1>>
        ELSE Reduce(<<sign * Number(t.int \o t.frac), Pow(10, Len(t.frac))>>)

\* str::parse::<u8>
ParseU8(t) ==
    [ok |-> ~t.neg /\ t.frac = <<>> /\ Number(t.int) < Pow(2, 8),
     value |-> Number(t.int)]

\* f as usize
AsUsize(r) == IF r[1] < 0 THEN 0 ELSE r[1] \div r[2]

\* the table value (in units of 1 / Scale) an f32 stands for
ValueOf(r) == r[1] * (Scale \div r[2])

\* <[u8; 12] as Serialize>::serialize
SerializeState(key) == [k \in 1..Len(key) |-> DisplayInteger(key[k])]

\* <[u8; 12] as Deserialize>::deserialize
DeserializeState(field) ==
    [ok |-> /\ Len(field) = OppositeSum
            /\ \A k \in 1..Len(field) : ParseU8(field[k]).ok,
     value |-> [k \in 1..Len(field) |-> ParseU8(field[k]).value]]

\* one line of the table
SerializeEntry(key, a, value) ==
    <<SerializeState(key), DisplayInteger(a), DisplayF32(Reduce(<<value, Scale>>))>>

RECURSIVE SerializeEntries(_, _)
\* the lines of the entries in pairs, in the order the map yields them
SerializeEntries(q, pairs) ==
    IF pairs = {} THEN <<>>
    ELSE LET p == CHOOSE x \in pairs : TRUE
         IN  <<SerializeEntry(p[1], p[2], q[p])>>
                 \o SerializeEntries(q, pairs \ {p})

\* <GreedyPolicy as Serialize>::serialize
GreedySerialize(g) ==
    <<<<DisplayF32(g.gamma), DisplayF32(g.learning_rate)>>>>
        \o SerializeEntries(g.qtable, DOMAIN g.qtable)

RECURSIVE DeserializeEntries(_, _)
\* the loop over the lines of the table, from the table r.qtable
DeserializeEntries(lines, r) ==
    IF lines = <<>> \/ ~r.ok THEN r
    ELSE LET line == Head(lines)
             ok == /\ Len(line) = 3
                   /\ DeserializeState(line[1]).ok
                   /\ ParseU8(line[2]).ok
         IN  IF ~ok THEN [ok |-> FALSE, qtable |-> r.qtable]
             ELSE CHOOSE n \in
                    {DeserializeEntries(Tail(lines), m) :
                       m \in {[ok |-> TRUE,
                               qtable |-> Insert(r.qtable,
                                                 DeserializeState(line[1]).value,
                                                 ParseU8(line[2]).value,
                                                 ValueOf(ParseF32(line[3])))]}} :
                    TRUE

\* <GreedyPolicy as Deserialize>::deserialize
GreedyDeserialize(lines) ==
    IF lines = <<>> \/ Len(Head(lines)) # 2
    THEN [ok |-> FALSE]
    ELSE LET table == DeserializeEntries(Tail(lines), [ok |-> TRUE, qtable |-> EmptyTable])
         IN  IF ~table.ok THEN [ok |-> FALSE]
             ELSE [ok |-> TRUE,
                   policy |-> [qtable |-> table.qtable,
                               gamma |-> ParseF32(Head(lines)[1]),
                               learning_rate |-> ParseF32(Head(lines)[2])]]

\* <EpsilonGreedyPolicy as Serialize>::serialize
EpsilonSerialize(p) ==
    <<<<DisplayF32(p.min_epsilon), DisplayF32(p.max_epsilon),
        DisplayF32(p.decay_rate), DisplayInteger(p.episode)>>>>
        \o GreedySerialize(p.greedy_policy)

\* <EpsilonGreedyPolicy as Deserialize>::deserialize
EpsilonDeserialize(text) ==
    IF text = <<>> \/ Len(Head(text)) # 4 \/ ~GreedyDeserialize(Tail(text)).ok
    THEN [ok |-> FALSE]
    ELSE [ok |-> TRUE,
          policy |-> [greedy_policy |-> GreedyDeserialize(Tail(text)).policy,
                      min_epsilon |-> ParseF32(Head(text)[1]),
                      max_epsilon |-> ParseF32(Head(text)[2]),
                      decay_rate |-> ParseF32(Head(text)[3]),
                      episode |-> AsUsize(ParseF32(Head(text)[4]))]]

\* the policy the program holds
Policy ==
    [greedy_policy |-> [qtable |-> qtable, gamma |-> params.gamma,
                        learning_rate |-> params.learning_rate],
     min_epsilon |-> params.min_epsilon,
     max_epsilon |-> params.max_epsilon,
     decay_rate |-> params.decay_rate,
     episode |-> episode]

\* the episode counts a policy read from policy.csv starts with
LoadedEpisodes == {0, Pow(2, F32MantissaBits)}

\* main.rs main: the policy was read from policy.csv (its parameters those
\* main would give it), and training starts
InitPersist ==
    \E line \in Openings :
        /\ InitAt(line)
        /\ io = NoIo
        /\ InitTrain(line)
        /\ episode \in LoadedEpisodes

\* main.rs main: the policy is written to policy.csv when the program ends,
\* and read back when it starts again
SaveAndLoad ==
    /\ train.pc = "returned"
    /\ ~file.written
    /\ file' = [written |-> TRUE, saved |-> Policy,
                loaded |-> EpsilonDeserialize(EpsilonSerialize(Policy))]
    /\ UNCHANGED <<state, finished, qtable, episode, moves, last, params,
                   train, chosen, improved, io>>

NextPersist == Next \/ SaveAndLoad

SpecPersist == InitPersist /\ [][NextPersist]_vars

---------------------------------------------------------------------------
(* main.rs: get_player_input                                               *)

\* A line of standard input is the sequence of its characters, the line feed
\* that ends it included.

LineFeed == "\n"

\* the digits get_player_input matches
DigitChars == <<"0", "1", "2", "3", "4", "5">>

\* the lines the human may type: a digit, the quit signal, something else,
\* nothing
InputLines ==
    {<<c, LineFeed>> : c \in {"0", "3", "5", "q", "x"}} \cup {<<LineFeed>>}

RECURSIVE Streams(_)
\* the sequences of at most n lines
Streams(n) ==
    IF n = 0 THEN {<<>>}
    ELSE Streams(n - 1)
         \cup {Append(s, l) : s \in {t \in Streams(n - 1) : Len(t) = n - 1},
                              l \in InputLines}

\* str::strip_suffix("\n").unwrap_or("")
StripSuffix(buf) ==
    IF buf # <<>> /\ buf[Len(buf)] = LineFeed
    THEN SubSeq(buf, 1, Len(buf) - 1)
    ELSE <<>>

\* the match of get_player_input on the stripped text
Match(text) ==
    IF Len(text) = 1 /\ \E n \in 1..Len(DigitChars) : DigitChars[n] = text[1]
    THEN [kind |-> "Action",
          action |-> (CHOOSE n \in 1..Len(DigitChars) : DigitChars[n] = text[1]) - 1]
    ELSE IF text = <<"q">>
    THEN [kind |-> "Quit", action |-> 0]
    ELSE NoRequest

\* main.rs game_loop calls get_player_input at the start of a game
InitInput ==
    /\ InitAt(<<>>)
    /\ train = NoTrain
    /\ episode = MainPolicy.episode
    /\ \E lines \in Streams(MaxLines) :
           io = [lines |-> lines, reads |-> 0, input |-> <<>>, request |-> NoRequest]

\* one round of the loop of get_player_input: read_line appends the next line
\* to the buffer, the buffer is matched, and the function returns or goes on
ReadLine ==
    /\ io.request = NoRequest
    /\ io.reads < Len(io.lines)
    /\ io' = [io EXCEPT !.reads = @ + 1,
                        !.input = @ \o io.lines[io.reads + 1],
                        !.request = Match(StripSuffix(io.input \o io.lines[io.reads + 1]))]
    /\ UNCHANGED <<state, finished, qtable, episode, moves, last, params,
                   train, chosen, improved, file>>

NextInput == ReadLine

SpecInput == InitInput /\ [][NextInput]_vars

---------------------------------------------------------------------------
(* mankalla.rs, q_learning.rs one_episode: the plays of one game            *)

\* Positions late in a game, each reached from new() by the moves listed
\* (each offered by actions() where it is made), from which every play is
\* followed to its end.
Endgames ==
    { <<4, 3, 2, 0, 0, 5, 2, 1, 0, 5, 0, 2, 3, 5, 1, 0, 5, 4, 4, 3, 3, 0, 4, 5,
        4, 0, 5, 1>>,
      <<3, 5, 1, 2, 0, 0, 1, 4, 0, 3, 2, 2, 4, 3, 2, 0, 5, 1, 1, 0, 0, 5, 5, 3,
        4, 2, 1, 0, 2>> }

\* one_episode is in a game: at new() under a cap of MaxMoves steps, or at
\* one of Endgames without a cap
InitGame ==
    /\ \E line \in Endgames \cup {<<>>} :
          /\ InitAt(line)
          /\ train = [n |-> 1,
                      max_steps |-> IF line = <<>>
                                    THEN [some |-> TRUE, m |-> MaxMoves]
                                    ELSE NoMaxSteps,
                      done |-> 0, steps |-> 0, pc |-> "episode"]
    /\ io = NoIo
    /\ episode = MainPolicy.episode

\* one round of the loop of one_episode as the game sees it: step is applied
\* to the state held and an action actions() offers for it (the policies
\* return no other), and the loop breaks when step returns None
Play ==
    /\ train.pc = "episode"
    /\ ~finished
    /\ BelowCap
    /\ \E n \in 1..Len(Actions(Projection(state))) :
          \E r \in {Step(state, Actions(Projection(state))[n])} :
              /\ state' = IF r.some THEN r.state ELSE state
              /\ finished' = ~r.some
              /\ last' = [NoLast EXCEPT !.called = TRUE,
                                        !.pre = state,
                                        !.key = Projection(state),
                                        !.action = Actions(Projection(state))[n],
                                        !.step = r]
    /\ train' = IF train.max_steps.some
                THEN [train EXCEPT !.steps = @ + 1]
                ELSE train
    /\ UNCHANGED <<qtable, episode, moves, params, chosen, improved, io, file>>

NextGame == Play

\* one_episode holds a game that can go on: it has not ended and the cap
\* leaves a step
Playable == ~finished /\ BelowCap

\* the loop of one_episode goes on while it can: weak fairness of NextGame,
\* written out with Playable for ENABLED <<NextGame>>_vars (a game that has
\* not ended offers an action, which C21 checks)
SpecGame ==
    /\ InitGame
    /\ [][NextGame]_vars
    /\ ([]<>(~Playable) \/ []<><<NextGame>>_vars)

\* the round trip restores the table and the parameters, and the episode
\* count while an f32 holds it exactly
RoundTripButEpisode ==
    file.written =>
        /\ file.loaded.ok
        /\ [file.loaded.policy EXCEPT !.episode = 0] = [file.saved EXCEPT !.episode = 0]
        /\ file.saved.episode <= Pow(2, F32MantissaBits) =>
              file.loaded.policy.episode = file.saved.episode

\* every table update is exact in units of 1 / Scale
ExactUpdate ==
    last.called => (LrNum * (last.target - last.former)) % LrDen = 0

---------------------------------------------------------------------------
(* Vocabulary of the properties                                            *)

TotalMarbles == 12 * InitialMarbles

Total(f) == SumRange(f, 0, NumFields)

Store(player) == IF player = "Player1" THEN P1Store ELSE P2Store

Other(player) == IF player = "Player1" THEN "Player2" ELSE "Player1"

\* the six playing pits of a player
OwnPits(player) == IF player = "Player1" THEN 0..5 ELSE 7..12

PlayingPits == (0..5) \cup (7..12)

\* the last step was made with an action whose source pit held marbles
LegalMove == last.called /\ last.action < NumActions /\ last.step.marbles > 0

Mover == last.pre.player_to_move

\* the board before the last step, after its sowing, after its capture, and at
\* its return (after the sweep when the game ended)
Before == last.pre.fields
Sown == last.step.sown
Stolen == last.step.stolen
After == last.step.state.fields

Captured == Stolen # Sown

Terminal == ~last.step.some

\* a board with the two sides exchanged (pit k with pit k + 7) and the other
\* player to move
Swap(s) ==
    [fields |-> [k \in 0..(NumFields - 1) |->
                    IF k \in PlayingPits THEN s.fields[(k + P2Offset) % NumFields]
                    ELSE s.fields[k]],
     player_to_move |-> Other(s.player_to_move)]

---------------------------------------------------------------------------
(* Properties                                                              *)

\* C1: marble conservation.  The state held by the episode always holds 72
\* marbles, and across a legal step the sum of the 14 counters is unchanged:
\* after the sowing, after the capture and at the return (terminal or not).
C1_MarbleConservation ==
    /\ Total(state.fields) = TotalMarbles
    /\ LegalMove =>
          /\ Total(Before) = TotalMarbles
          /\ Total(Sown) = Total(Before)
          /\ Total(Stolen) = Total(Before)
          /\ Total(After) = Total(Before)

\* C1 witness: a legal step that captured and did not end the game
C1_Witness == LegalMove /\ Captured /\ ~Terminal

\* C2: legal-action soundness.  In every state the episode holds (new() or a
\* successor returned by step) actions() of the projection is not empty, each
\* action it returns is below 6 and names a non-empty pit of the player to
\* move, and the greedy choice does not take its fatal path.
C2_LegalActionSoundness ==
    LET actions == Actions(Projection(state))
    IN  /\ actions # <<>>
        /\ \A n \in 1..Len(actions) :
              /\ actions[n] \in 0..5
              /\ state.fields[SourcePit(state.player_to_move, actions[n])] > 0
        /\ ChooseAction(qtable, Projection(state)) # Panic
        /\ Panic \notin EpsilonChoices(qtable, Projection(state))

\* C2 witness: a returned successor with player two to move and an empty pit
\* on player two's side
C2_Witness ==
    /\ last.called /\ ~finished
    /\ state.player_to_move = "Player2"
    /\ Len(Actions(Projection(state))) < NumActions

\* C3: termination sweep.  A legal step returns no successor exactly when,
\* after sowing and capture, one side's six pits sum to zero; then every
\* playing pit is zero, each scoring pit has grown by its own side's rest, and
\* the two scoring pits sum to the total held before the move.
C3_TerminationSweep ==
    LegalMove =>
        /\ Terminal <=> (SumRange(Stolen, 0, 6) = 0 \/ SumRange(Stolen, 7, 13) = 0)
        /\ Terminal =>
              /\ \A k \in PlayingPits : After[k] = 0
              /\ After[P1Store] = Stolen[P1Store] + SumRange(Stolen, 0, 6)
              /\ After[P2Store] = Stolen[P2Store] + SumRange(Stolen, 7, 13)
              /\ After[P1Store] + After[P2Store] = Total(Before)
        /\ ~Terminal => After = Stolen

\* C3 witness: a terminal step that swept marbles left on one side
C3_Witness ==
    LegalMove /\ Terminal /\ SumRange(Stolen, 0, 6) + SumRange(Stolen, 7, 13) > 0

\* C4: free turn.  After a legal, non-terminal step the successor's player to
\* move is the mover if and only if the last marble was sown into the mover's
\* own scoring pit; otherwise it is the other player.
C4_FreeTurn ==
    (LegalMove /\ ~Terminal) =>
        /\ (last.step.state.player_to_move = Mover) <=> (last.step.i = Store(Mover))
        /\ last.step.state.player_to_move \in {Mover, Other(Mover)}
        /\ state = last.step.state

\* C4 witness: player two moved into the own scoring pit and moves again
C4_Witness ==
    /\ LegalMove /\ ~Terminal
    /\ Mover = "Player2" /\ last.step.i = P2Store

\* C5: capture rule.  In a legal step a capture happens if and only if the last
\* marble landed in one of the mover's six pits that was empty when it landed
\* (it now holds exactly one: the pit was empty before the move, or it is the
\* source pit) and the opposite pit 12 - i holds a marble; the capture zeroes
\* both pits, adds 1 plus the opposite pit's count to the mover's scoring pit
\* and changes nothing else.
C5_CaptureRule ==
    LegalMove =>
        LET i == last.step.i
        IN  /\ Captured <=>
                  /\ i \in OwnPits(Mover)
                  /\ Sown[i] = 1
                  /\ Sown[OppositeSum - i] > 0
            /\ Captured =>
                  /\ Before[i] = 0 \/ i = last.step.src
                  /\ Stolen[i] = 0
                  /\ Stolen[OppositeSum - i] = 0
                  /\ Stolen[Store(Mover)]
                        = Sown[Store(Mover)] + 1 + Sown[OppositeSum - i]
                  /\ \A k \in 0..(NumFields - 1) :
                        k \notin {i, OppositeSum - i, Store(Mover)} => Stolen[k] = Sown[k]

\* C5 witness: a capture by player two
C5_Witness == LegalMove /\ Captured /\ Mover = "Player2"

\* C6: reward perspective.  The reward of a legal step, terminal or not, is
\* the gain of the mover's scoring pit minus the gain of the opponent's over
\* the step (measured at the return): player one's gain minus player two's,
\* negated exactly when player two moved.
C6_RewardPerspective ==
    LegalMove =>
        /\ last.step.reward
              = (After[Store(Mover)] - Before[Store(Mover)])
                - (After[Store(Other(Mover))] - Before[Store(Other(Mover))])
        /\ LET d == (After[P1Store] - Before[P1Store]) - (After[P2Store] - Before[P2Store])
           IN  last.step.reward = IF Mover = "Player2" THEN -d ELSE d

\* C6 witness: player two ends the game and gains more than player one
C6_Witness ==
    LegalMove /\ Terminal /\ Mover = "Player2" /\ last.step.reward > 0

\* C7: terminal update target.  When improve is called without a successor the
\* target is the observed reward and the entry becomes
\* old + learning_rate * (reward - old); with a successor the target is
\* reward + gamma * value[(s', a*)], a* the greedy action on s'.
C7_TerminalTarget ==
    last.called =>
        LET next == Projection(last.step.state)
            target == IF Terminal THEN last.step.reward * Scale
                      ELSE last.step.reward * Scale
                           + Gamma * Get(last.table, next, ChooseAction(last.table, next))
        IN  /\ last.target = target
            /\ qtable[<<last.key, last.action>>] = Updated(last.former, target)

\* C8: an action whose source pit is empty is fatal: step does not return.
C8_EmptyPitFatal ==
    (last.called /\ last.step.marbles = 0) => ~last.step.returned

\* C9 as stated: on a legal step at most one scoring pit increases, and
\* neither increases without a capture or a terminal harvest.
C9_Original ==
    LegalMove =>
        /\ ~(After[P1Store] > Before[P1Store] /\ After[P2Store] > Before[P2Store])
        /\ (~Captured /\ ~Terminal) =>
              (After[P1Store] = Before[P1Store] /\ After[P2Store] = Before[P2Store])

\* C9 amended: on a legal step that is not terminal and whose sowing does not
\* reach the opponent's scoring pit, at most one scoring pit increases (the
\* mover's; the opponent's is unchanged), and neither increases when in
\* addition there is no capture and the sowing does not reach the mover's
\* scoring pit.  No scoring pit ever decreases.
C9_ScoringPitExclusivity ==
    LegalMove =>
        LET own == Store(Mover)
            opp == Store(Other(Mover))
        IN  /\ After[own] >= Before[own] /\ After[opp] >= Before[opp]
            /\ (~Terminal /\ Sown[opp] = Before[opp]) =>
                  /\ ~(After[own] > Before[own] /\ After[opp] > Before[opp])
                  /\ After[opp] = Before[opp]
            /\ (~Terminal /\ ~Captured /\ Sown[opp] = Before[opp] /\ Sown[own] = Before[own]) =>
                  (After[own] = Before[own] /\ After[opp] = Before[opp])

\* C9 witness: a capture without a marble sown into either scoring pit
C9_Witness ==
    /\ LegalMove /\ ~Terminal /\ Captured
    /\ Sown[P1Store] = Before[P1Store] /\ Sown[P2Store] = Before[P2Store]

\* C10: mover-centric projection.  The key of the state holds the mover's six
\* pits in slots 0-5 and the opponent's six in slots 6-11, in physical order;
\* it does not depend on the scoring pits; the state with the sides and the
\* player to move exchanged has the same key; and slot a of the key is the pit
\* step picks up for action a.
C10_MoverCentricProjection ==
    LET key == Projection(state)
        own == IF state.player_to_move = "Player1" THEN 0 ELSE P2Offset
        opp == IF state.player_to_move = "Player1" THEN P2Offset ELSE 0
    IN  /\ Len(key) = 12
        /\ \A k \in 0..5 :
              /\ key[k + 1] = state.fields[own + k]
              /\ key[k + 7] = state.fields[opp + k]
              /\ own + k = SourcePit(state.player_to_move, k)
        /\ \A x, y \in {0, 1} :
              Projection([state EXCEPT !.fields[P1Store] = x, !.fields[P2Store] = y]) = key
        /\ Projection(Swap(state)) = key
        /\ last.called =>
              /\ last.key = Projection(last.pre)
              /\ last.key[last.action + 1] = last.step.marbles
              /\ last.step.marbles = Before[last.step.src]

\* C10 witness: player two to move after a step, the two sides differing
C10_Witness ==
    /\ last.called
    /\ state.player_to_move = "Player2"
    /\ Slice(state.fields, 0) # Slice(state.fields, P2Offset)

\* C11: policies only pick legal actions.  Whatever the table holds, the
\* action the greedy policy returns, and the action the epsilon-greedy policy
\* returns on its exploring branch and on its greedy branch, is one of
\* actions() of the state it was asked for: below 6, and naming a non-empty
\* pit of the player to move.
C11_PoliciesPickLegalActions ==
    chosen.called =>
        /\ chosen.key = Projection(state)
        /\ chosen.action \in 0..(NumActions - 1)
        /\ state.fields[SourcePit(state.player_to_move, chosen.action)] > 0
        /\ \E n \in 1..Len(Actions(chosen.key)) :
               Actions(chosen.key)[n] = chosen.action

\* C11 witness: the greedy branch of the epsilon-greedy policy answered for a
\* state with empty pits, an empty pit holding the highest value of the table
C11_Witness ==
    /\ chosen.called
    /\ chosen.by = "EpsilonGreedyPolicy" /\ chosen.branch = "greedy"
    /\ \E a \in 0..(NumActions - 1) :
           /\ chosen.key[a + 1] = 0
           /\ Get(qtable, chosen.key, a) > Get(qtable, chosen.key, chosen.action)

\* C12: episode accounting.  A call of train with num_training_episodes = n
\* never has more than n episodes behind it and returns with exactly n; the
\* episode counter of the epsilon-greedy policy has grown by one for each
\* episode that is over, however it ended, so by n when train returns; and
\* an episode in which no step has been made holds the state new() gives.
C12_EpisodeAccounting ==
    /\ train.done <= train.n
    /\ episode = MainPolicy.episode + train.done
    /\ train.pc = "episode" => train.done < train.n
    /\ train.pc = "returned" =>
          /\ train.done = train.n
          /\ episode = MainPolicy.episode + train.n
    /\ (train.pc = "episode" /\ train.steps = 0) =>
          /\ state = NewState
          /\ ~finished

\* C12 witness: train has returned after two episodes that the step cap cut
\* short
C12_Witness ==
    /\ train.pc = "returned"
    /\ train.n = MaxEpisodes
    /\ train.max_steps.some /\ train.steps > 0
    /\ ~finished

\* C13: episode stopping.  Once step has returned no successor, nothing more
\* is chosen, stepped or learned in that episode; an episode under a cap of m
\* steps never makes more than m, and one that is over without having
\* terminated has made exactly m.
C13_EpisodeStopping ==
    /\ [](/\ (train.pc = "episode" /\ train.max_steps.some) =>
                train.steps <= train.max_steps.m
          /\ train.pc = "loop" /\ train.done > 0 =>
                \/ finished
                \/ train.max_steps.some /\ train.steps = train.max_steps.m)
    /\ [][finished =>
            /\ moves' = moves
            /\ qtable' = qtable
            /\ chosen' = chosen
            /\ train'.steps = train.steps \/ train'.steps = 0]_vars

\* C13 witness: an episode under the largest cap is over after exactly that
\* many steps, none of which ended the game
C13_Witness ==
    /\ train.pc = "loop" /\ train.done > 0
    /\ train.max_steps.some /\ train.max_steps.m = MaxCap
    /\ train.steps = MaxCap
    /\ ~finished

\* C14: persistence round-trip.  Writing the epsilon-greedy policy and reading
\* the text back succeeds and gives the same table, gamma, learning rate,
\* minimum and maximum epsilon, decay rate and episode count.
C14_PersistenceRoundTrip ==
    file.written =>
        /\ file.loaded.ok
        /\ file.loaded.policy = file.saved

\* C15: interactive legality.  In the interactive session every action step
\* is called with, typed by the human or chosen by the policy, is one of
\* actions() of the projection of the state the game is in: a digit whose pit
\* is empty does not reach step.
C15_InteractiveLegality ==
    last.called =>
        /\ last.pre.fields[SourcePit(last.pre.player_to_move, last.action)] > 0
        /\ \E n \in 1..Len(Actions(Projection(last.pre))) :
               Actions(Projection(last.pre))[n] = last.action

\* a line get_player_input is to accept when it stands alone
Recognized(line) == Match(StripSuffix(line)) # NoRequest

\* C16: input recovery.  When standard input yields unrecognized lines and
\* then a recognized one (a digit 0-5 or the quit signal), get_player_input
\* has, once it has read that line, returned the request the line stands for.
C16_InputRecovery ==
    \A k \in 1..io.reads :
        ( /\ Recognized(io.lines[k])
          /\ \A j \in 1..(k - 1) : ~Recognized(io.lines[j]) )
        => io.request = Match(StripSuffix(io.lines[k]))

\* C17: startup defaults.  The policy main builds when policy.csv cannot be
\* read has learning rate 0.2, gamma 1.0, max epsilon 1.0, min epsilon 0.1,
\* decay rate 0.01 (positive) and episode counter 0; it holds them before
\* anything has been learned.
C17_StartupDefaults ==
    (qtable = EmptyTable /\ train.done = 0) =>
        /\ params.learning_rate = <<1, 5>>
        /\ params.gamma = <<1, 1>>
        /\ params.max_epsilon = <<1, 1>>
        /\ params.min_epsilon = <<1, 10>>
        /\ params.decay_rate = <<1, 100>>
        /\ params.decay_rate[1] > 0
        /\ episode = 0

\* C18: training step protocol.  A training step makes one choose_action
\* call, one step call and one improve call, in that order: the action is
\* chosen for the projection of the state held, from the table as it is
\* before the update; step is applied to that state and that action; improve
\* is given that projection, that action, the reward step returned and
\* step's successor, which is absent exactly when step ended the game; and
\* the table after the step is the one that improve call leaves.
C18_TrainingStepProtocol ==
    last.called =>
        /\ last.calls = <<"choose_action", "step", "improve">>
        /\ chosen.called
        /\ chosen.key = Projection(last.pre)
        /\ chosen.action \in EpsilonChoices(last.table, Projection(last.pre))
        /\ last.step = Step(last.pre, chosen.action)
        /\ last.improve.state = Projection(last.pre)
        /\ last.improve.action = chosen.action
        /\ last.improve.reward = last.step.reward
        /\ last.improve.some = last.step.some
        /\ last.improve.some <=> ~finished
        /\ last.improve.some => last.improve.next = last.step.state /\ state = last.step.state
        /\ qtable = Improve(last.table, last.improve.state, last.improve.action,
                            last.improve.reward, last.improve.some, last.improve.next)

\* C18 witness: a training step that ended the game with a reward, improve
\* being given no successor
C18_Witness ==
    /\ last.called
    /\ ~last.improve.some
    /\ last.improve.reward # 0
    /\ train.pc = "episode"

\* the value the table holds for an action, a missing entry reading as zero
Stored(q, key, a) == IF <<key, a>> \in DOMAIN q THEN q[<<key, a>>] ELSE 0

\* a is one of actions() of key
Offered(key, a) == \E n \in 1..Len(Actions(key)) : Actions(key)[n] = a

\* C19: greedy selection.  For every table and every state with legal
\* actions, GreedyPolicy::choose_action returns a legal action whose stored
\* value (zero when missing) is at least that of every other legal action,
\* and among the legal actions that share that value it returns the one
\* actions() lists last, so the table and the state determine the result.
C19_GreedySelection ==
    (chosen.called /\ chosen.by = "GreedyPolicy") =>
        /\ Offered(chosen.key, chosen.action)
        /\ \A a \in 0..(NumActions - 1) :
              Offered(chosen.key, a) =>
                  /\ Stored(qtable, chosen.key, chosen.action) >= Stored(qtable, chosen.key, a)
                  /\ Stored(qtable, chosen.key, a) = Stored(qtable, chosen.key, chosen.action)
                        => a <= chosen.action

\* C19 witness: the greedy policy chose between a missing entry and a stored
\* zero that tie for the maximum, another legal action holding less
C19_Witness ==
    /\ chosen.called /\ chosen.by = "GreedyPolicy"
    /\ <<chosen.key, chosen.action>> \in DOMAIN qtable
    /\ \E a \in 0..(NumActions - 1) :
           /\ Offered(chosen.key, a)
           /\ a < chosen.action
           /\ <<chosen.key, a>> \notin DOMAIN qtable
           /\ Stored(qtable, chosen.key, a) = Stored(qtable, chosen.key, chosen.action)
    /\ \E b \in 0..(NumActions - 1) :
           /\ Offered(chosen.key, b)
           /\ Stored(qtable, chosen.key, b) < Stored(qtable, chosen.key, chosen.action)

\* C20: value-table frame.  The key set of the table never shrinks and is
\* the set of (state, action) pairs passed to improve; a step with an improve
\* call adds at most the entry of its own pair and changes no other entry,
\* the choice made in it and the look-up of the successor's best value
\* adding nothing; the parameters and the episode counter are the same after
\* it; a step without an improve call leaves the table alone.
C20_ValueTableFrame ==
    /\ [](/\ DOMAIN qtable = improved
          /\ Cardinality(DOMAIN qtable) = Cardinality(improved))
    /\ [][/\ DOMAIN qtable \subseteq DOMAIN qtable'
          /\ moves' = moves =>
                /\ qtable' = qtable
                /\ params' = params
          /\ moves' # moves =>
                /\ DOMAIN qtable' =
                      DOMAIN qtable \cup {<<last'.improve.state, last'.improve.action>>}
                /\ \A p \in DOMAIN qtable :
                      p # <<last'.improve.state, last'.improve.action>>
                          => qtable'[p] = qtable[p]
                /\ params' = params
                /\ episode' = episode]_vars

\* C20 witness: an improve call changed the entry of its pair, which the
\* table already held among others
C20_Witness ==
    /\ last.called
    /\ <<last.improve.state, last.improve.action>> \in DOMAIN last.table
    /\ qtable[<<last.improve.state, last.improve.action>>]
          # last.table[<<last.improve.state, last.improve.action>>]
    /\ Cardinality(DOMAIN qtable) > 1

\* the marbles in the two scoring pits
InStores(f) == f[P1Store] + f[P2Store]

\* the marbles in the playing pits, each counted as often as the place of
\* its pit on its side (1 for the pit farthest from the side's scoring pit)
Advance(f) ==
    SumRange([k \in 0..(NumFields - 1) |->
                 IF k < P1Store THEN (k + 1) * f[k]
                 ELSE IF k > P1Store /\ k < P2Store THEN (k - P1Store) * f[k]
                 ELSE 0], 0, NumFields)

\* a measure of how far a game has gone: marbles scored count before
\* marbles advanced
Rank(f) == InStores(f) * (NumActions * TotalMarbles + 1) + Advance(f)

\* C21: every game ends.  Under legal play a state that is not terminal
\* offers an action, every step that returns a successor leaves a board of
\* higher rank, and the rank is bounded, so no play comes back to a state it
\* has been in, free turns included; and an episode without a step cap
\* reaches the step that returns None.
C21_EveryGameEnds ==
    /\ [](Rank(state.fields) <= TotalMarbles * (NumActions * TotalMarbles + 1))
    /\ [](~finished => Actions(Projection(state)) # <<>>)
    /\ [][(last' # last /\ ~finished')
             => Rank(state'.fields) > Rank(state.fields)]_vars
    /\ (~train.max_steps.some) => <>finished

\* C21 witness: a game played without a cap has ended, by a legal step that
\* returned None and left the board at the highest rank (every marble scored)
C21_Witness ==
    /\ finished
    /\ ~train.max_steps.some
    /\ LegalMove /\ Terminal
    /\ Rank(Before) < Rank(After)
    /\ Rank(After) = TotalMarbles * (NumActions * TotalMarbles + 1)

\* the boards step's loop holds while the marbles of the last step are sown,
\* from the emptied source pit to the last marble
Sowing ==
    { Sow([Before EXCEPT ![last.step.src] = 0], last.step.src, k).fields :
        k \in 0..last.step.marbles }

\* every counter of a board and the sum of each side's six pits lie in 0..72
InRange(f) ==
    /\ \A k \in 0..(NumFields - 1) : f[k] \in 0..TotalMarbles
    /\ SumRange(f, 0, P1Store) \in 0..TotalMarbles
    /\ SumRange(f, P1Store + 1, P2Store) \in 0..TotalMarbles

\* C22: bounded counters.  72 fits the 8-bit counters; the state held and,
\* for every legal step, the board before it, each board of its sowing, the
\* board after its capture and the board at its return have every counter
\* and both side sums within 0..72; the sums formed by the capture and by the
\* sweep stay within 72; and neither scoring pit goes down from one of these
\* points to the next, so the score differences of the reward are not
\* negative.
C22_BoundedCounters ==
    /\ TotalMarbles < Pow(2, CounterBits)
    /\ InRange(state.fields)
    /\ LegalMove =>
          /\ \A f \in Sowing \cup {Before, Sown, Stolen, After} : InRange(f)
          /\ last.step.i \in PlayingPits =>
                /\ Sown[last.step.i] + Sown[OppositeSum - last.step.i] <= TotalMarbles
                /\ Sown[Store(Mover)] + Sown[last.step.i]
                      + Sown[OppositeSum - last.step.i] <= TotalMarbles
          /\ SumRange(Stolen, 0, P1Store) + Stolen[P1Store] <= TotalMarbles
          /\ SumRange(Stolen, P1Store + 1, P2Store) + Stolen[P2Store] <= TotalMarbles
          /\ \A store \in {P1Store, P2Store} :
                /\ \A f \in Sowing : Before[store] <= f[store] /\ f[store] <= Sown[store]
                /\ Sown[store] <= Stolen[store]
                /\ Stolen[store] <= After[store]

\* C22 witness: a legal step sowed at least two marbles, captured and ended
\* the game, and a scoring pit holds more than half of the marbles
C22_Witness ==
    /\ LegalMove /\ Captured /\ Terminal
    /\ last.step.marbles > 1
    /\ \E store \in {P1Store, P2Store} : 2 * After[store] > TotalMarbles

===========================================================================
